---- MODULE Spec2Model ----
(***************************************************************************)
(* safe-arch/src/x86_64/wrappers.rs: the bound-checked wrappers around the *)
(* unaligned SSE2/AVX/AVX2 load, store, masked store and gather            *)
(* intrinsics, over a BoundedSlice<T, SLICE_BOUND>.                        *)
(*                                                                         *)
(* A vector register (__m128i, __m256i) is the tuple of its bytes, in      *)
(* memory order (x86 is little endian).  The slice's storage is the tuple  *)
(* of its bytes; byte address a (0-based) is mem[a + 1].                   *)
(*                                                                         *)
(* A usize constant can be as large as 2^64, more than the integers of the *)
(* model checker hold, so a usize is held as two digits <<hi, lo>> in base *)
(* 2^24: its value is hi * 2^24 + lo.  i8 and i32 values are integers.     *)
(***************************************************************************)
EXTENDS Integers, Sequences, FiniteSets, TLC

VARIABLES
    overflow_checks, \* the build: TRUE = overflow checks on (debug profile)
    cpu,             \* the hardware features of the executing processor
    slice,           \* the BoundedSlice type: [T, SLICE_BOUND, VALUE_BOUND]
    START_BOUND,     \* the bound of the program's offsets, BoundedUsize<START_BOUND>
    mem,             \* the slice's storage, byte by byte
    last,            \* the last wrapper call, its arguments and its effect
    ncalls,          \* the number of wrapper calls made
    rejected         \* the instantiation the compiler rejected, if any

vars == <<overflow_checks, cpu, slice, START_BOUND, mem, last, ncalls, rejected>>

(***************************************************************************)
(* Bounds of the model.                                                    *)
(***************************************************************************)
MaxCalls == 2
MaxStartBound == 5

(***************************************************************************)
(* Program constants.                                                      *)
(***************************************************************************)
AVX_VECTOR_SIZE == 32
SSE_VECTOR_SIZE == 16

I8_MIN == -(2^7)
I8_MAX == 2^7 - 1
I32_MAX == (2^30 - 1) + 2^30
I32_MIN == (-I32_MAX) - 1
Digit == 2^24   \* the base of the two usize digits

(***************************************************************************)
(* usize arithmetic on the two-digit representation.                       *)
(***************************************************************************)
Usize(n) == <<n \div Digit, n % Digit>>
UsizePow2(e) == IF e < 24 THEN <<0, 2^e>> ELSE <<2^(e - 24), 0>>
UsizeFits(u) == u[1] < 128
UsizeToInt(u) == u[1] * Digit + u[2]
UsizeLt(a, b) == a[1] < b[1] \/ (a[1] = b[1] /\ a[2] < b[2])
UsizeLe(a, b) == a = b \/ UsizeLt(a, b)
UsizeMul(u, c) == <<u[1] * c + (u[2] * c) \div Digit, (u[2] * c) % Digit>>
UsizeAdd(u, c) == <<u[1] + (u[2] + c) \div Digit, (u[2] + c) % Digit>>

IsPow2Int(n) == \E e \in 0..30 : n = 2^e
\* usize::is_power_of_two
is_power_of_two(u) ==
    \/ u[1] = 0 /\ IsPow2Int(u[2])
    \/ u[2] = 0 /\ IsPow2Int(u[1])

(***************************************************************************)
(* Casts and checked arithmetic.                                           *)
(***************************************************************************)
\* `x as i8` of a usize: the low 8 bits, read as two's complement
as_i8(u) == LET b == u[2] % 256 IN IF b >= 128 THEN b - 256 ELSE b
\* `x as i32` of a usize: the low 32 bits, read as two's complement
as_i32(u) ==
    LET top == u[1] % 256
    IN  (IF top >= 128 THEN top - 256 ELSE top) * Digit + u[2]

\* `a - 1` on i8: [overflow, value]; value is the wrapped result
SubOverflowsI8(a) == a = I8_MIN
WrappingSub1I8(a) == IF a = I8_MIN THEN I8_MAX ELSE a - 1
SubOverflowsI32(a) == a = I32_MIN
WrappingSub1I32(a) == IF a = I32_MIN THEN I32_MAX ELSE a - 1

\* byte m (0 = least significant) of the two's complement pattern of x
LEByte(x, m) == (x \div (256^m)) % 256

RECURSIVE BitAnd(_, _)
BitAnd(a, b) ==
    IF a = 0 \/ b = 0 THEN 0
    ELSE (a % 2) * (b % 2) + 2 * BitAnd(a \div 2, b \div 2)

(***************************************************************************)
(* The element types and what the wrappers need to know of them.           *)
(***************************************************************************)
Types == {"u8", "u16", "u32", "u64", "BoundedU8", "BoundedU32"}

\* core::mem::size_of::<T>()
size_of(T) ==
    CASE T = "u8" -> 1
      [] T = "u16" -> 2
      [] T = "u32" -> 4
      [] T = "u64" -> 8
      [] T = "BoundedU8" -> 1
      [] T = "BoundedU32" -> 4

\* T: AsBytes (every element type here can be read as bytes)
AsBytes(T) == T \in Types
\* T: FromBytes (every bit pattern is a value of T: not so for a bounded value)
FromBytes(T) == T \in {"u8", "u16", "u32", "u64"}

(***************************************************************************)
(* The compile-time predicates of the crate.                               *)
(***************************************************************************)
\* CheckLengthsSimd::<T, SLICE_BOUND, START_BOUND, VECTOR_SIZE>::CHECK_GE
CheckLengthsSimd(E, S, O, V) == UsizeLe(Usize(O * E + V), UsizeMul(S, E))

\* CheckPow2Size::<T, VECTOR_SIZE>::IS_POW2
CheckPow2Size(E, VECTOR_SIZE) == IsPow2Int(E) /\ VECTOR_SIZE % E = 0

\* CheckPow2::<N>::IS_POW2
CheckPow2(N) == is_power_of_two(N)

\* CheckSameSize::<T, SCALE>::SAME_SIZE
CheckSameSize(T, SCALE) == SCALE = size_of(T)

(***************************************************************************)
(* The hardware: vector intrinsics of core::arch::x86_64.                  *)
(***************************************************************************)
\* the feature each intrinsic needs
RequiredFeature(ins) ==
    CASE ins \in {"_mm_loadu_si128", "_mm_storeu_si128", "_mm_and_si128",
                  "_mm_set1_epi8", "_mm_set1_epi32"} -> "sse2"
      [] ins \in {"_mm256_loadu_si256", "_mm256_storeu_si256",
                  "_mm256_set1_epi8", "_mm256_set1_epi32"} -> "avx"
      [] ins \in {"_mm256_and_si256", "_mm256_i32gather_epi32"} -> "avx2"

\* a read of byte address a of the storage `m`; outside it the read is
\* undefined and yields `junk`
ReadByte(m, a, junk) == IF a + 1 \in DOMAIN m THEN m[a + 1] ELSE junk

_mm_loadu_si128(m, addr, junk) ==
    [j \in 1..SSE_VECTOR_SIZE |-> ReadByte(m, addr + j - 1, junk)]
_mm256_loadu_si256(m, addr, junk) ==
    [j \in 1..AVX_VECTOR_SIZE |-> ReadByte(m, addr + j - 1, junk)]

_mm_storeu_si128(m, addr, v) ==
    [b \in DOMAIN m |->
        IF b - 1 \in addr..(addr + SSE_VECTOR_SIZE - 1) THEN v[b - addr] ELSE m[b]]
_mm256_storeu_si256(m, addr, v) ==
    [b \in DOMAIN m |->
        IF b - 1 \in addr..(addr + AVX_VECTOR_SIZE - 1) THEN v[b - addr] ELSE m[b]]

_mm_set1_epi8(a) == [j \in 1..SSE_VECTOR_SIZE |-> LEByte(a, 0)]
_mm_set1_epi32(a) == [j \in 1..SSE_VECTOR_SIZE |-> LEByte(a, (j - 1) % 4)]
_mm256_set1_epi8(a) == [j \in 1..AVX_VECTOR_SIZE |-> LEByte(a, 0)]
_mm256_set1_epi32(a) == [j \in 1..AVX_VECTOR_SIZE |-> LEByte(a, (j - 1) % 4)]

_mm_and_si128(a, b) == [j \in 1..SSE_VECTOR_SIZE |-> BitAnd(a[j], b[j])]
_mm256_and_si256(a, b) == [j \in 1..AVX_VECTOR_SIZE |-> BitAnd(a[j], b[j])]

\* the 32-bit lane l (1-based) of a vector, read as a signed integer
I32Lane(v, l) ==
    LET top == v[4 * l]
    IN  v[4 * l - 3] + 256 * v[4 * l - 2] + 65536 * v[4 * l - 1]
          + Digit * (IF top >= 128 THEN top - 256 ELSE top)

(***************************************************************************)
(* The slices, vectors and machines the model runs the wrappers on.        *)
(***************************************************************************)
NoBound == <<0, 0>>   \* the VALUE_BOUND of an element type that has none

PlainSlice(T, S) == [T |-> T, SLICE_BOUND |-> S, VALUE_BOUND |-> NoBound]
Slices ==
    {PlainSlice("u8", Usize(4)), PlainSlice("u8", Usize(18)), PlainSlice("u16", Usize(4)),
     PlainSlice("u32", Usize(8)), PlainSlice("u32", Usize(10)), PlainSlice("u64", Usize(4))}
    \cup {[T |-> "BoundedU8", SLICE_BOUND |-> Usize(34), VALUE_BOUND |-> UsizePow2(e)] :
            e \in {4, 7, 8}}
    \cup {[T |-> "BoundedU32", SLICE_BOUND |-> Usize(10), VALUE_BOUND |-> UsizePow2(e)] :
            e \in {4, 31, 32}}
\* the slices the gather is run on: small ones of every element size, and
\* the largest bounds an i32 offset can be masked to
GatherSlices ==
    {PlainSlice("u8", Usize(4)), PlainSlice("u8", Usize(16)), PlainSlice("u16", Usize(4)),
     PlainSlice("u32", Usize(8)), PlainSlice("u32", Usize(10)), PlainSlice("u64", Usize(4)),
     PlainSlice("u32", UsizePow2(30)), PlainSlice("u32", UsizePow2(31)),
     PlainSlice("u32", UsizePow2(32))}

StartBounds == 1..MaxStartBound

\* processors: every x86_64 has sse2; avx2 comes with avx
Cpus == {{"sse2"}, {"sse2", "avx"}, {"sse2", "avx", "avx2"}}

Vectors(n) ==
    {[j \in 1..n |-> 200], [j \in 1..n |-> (37 * j + 11) % 256]}

VecOfLanes(l) ==
    [j \in 1..AVX_VECTOR_SIZE |-> LEByte(l[((j - 1) \div 4) + 1], (j - 1) % 4)]
OffsetVectors ==
    {VecOfLanes(<<0, 1, 2, 3, 4, 5, 6, 7>>),
     VecOfLanes(<<-1, 8, -8, 1000, I32_MIN, 65535, 3, I32_MAX>>)}

\* what an out-of-bounds read can do: fault, or return whatever is there
UBOutcomes == {"fault", "zeros", "ones"}
Junk(ub) == IF ub = "ones" THEN 255 ELSE 0

\* the storage of a slice is SLICE_BOUND * size_of(T) bytes; of a slice too
\* large to hold, the model keeps the first WindowBytes bytes (no store of
\* the model reaches behind them)
WindowBytes == 8 * MaxStartBound + AVX_VECTOR_SIZE
StorageSize(s) == UsizeMul(s.SLICE_BOUND, size_of(s.T))
MemLen(s) ==
    IF UsizeLt(StorageSize(s), Usize(WindowBytes)) THEN UsizeToInt(StorageSize(s))
    ELSE WindowBytes

\* the initial content: any bytes, but elements below VALUE_BOUND in a
\* slice of bounded values
InitElem(s, i) ==
    IF UsizeFits(s.VALUE_BOUND) THEN (5 * i + 2) % UsizeToInt(s.VALUE_BOUND)
    ELSE 5 * i + 2
InitByte(s, a) ==
    IF s.VALUE_BOUND = NoBound THEN (7 * (a[2] % 256) + 3) % 256
    ELSE LEByte(InitElem(s, UsizeToInt(a) \div size_of(s.T)), UsizeToInt(a) % size_of(s.T))
InitMem(s) == [b \in 1..MemLen(s) |-> InitByte(s, Usize(b - 1))]

NoCall ==
    [op |-> "none", start |-> 0, value |-> <<>>, outcome |-> "none",
     written |-> <<>>, ret |-> <<>>, touched |-> {}, mask |-> 0,
     mask_overflow |-> FALSE, index |-> <<>>]
NoReject == [op |-> "none", SCALE |-> 0]

Init ==
    /\ overflow_checks \in BOOLEAN
    /\ cpu \in Cpus
    /\ slice \in Slices
    /\ START_BOUND \in StartBounds
    /\ mem = InitMem(slice)
    /\ last = NoCall
    /\ ncalls = 0
    /\ rejected = NoReject

InitGather ==
    /\ overflow_checks \in BOOLEAN
    /\ cpu \in Cpus
    /\ slice \in GatherSlices
    /\ START_BOUND = 1
    /\ mem = InitMem(slice)
    /\ last = NoCall
    /\ ncalls = 0
    /\ rejected = NoReject

(***************************************************************************)
(* What every wrapper call shares.                                         *)
(***************************************************************************)
\* #[target_feature(enable = ...)]: the feature each wrapper declares
target_feature(op) ==
    CASE op = "_mm256_load" -> "avx"
      [] op = "_mm256_store" -> "avx"
      [] op = "_mm256_store_masked_u8" -> "avx2"
      [] op = "_mm256_store_masked_u32" -> "sse2"
      [] op = "_mm256_masked_i32gather" -> "avx2"
      [] op = "_mm_load" -> "sse2"
      [] op = "_mm_store" -> "sse2"
      [] op = "_mm_store_masked_u8" -> "sse2"
      [] op = "_mm_store_masked_u32" -> "sse2"

\* the intrinsics each wrapper's body issues
Intrinsics(op) ==
    CASE op = "_mm256_load" -> {"_mm256_loadu_si256"}
      [] op = "_mm256_store" -> {"_mm256_storeu_si256"}
      [] op = "_mm256_store_masked_u8" ->
            {"_mm256_storeu_si256", "_mm256_and_si256", "_mm256_set1_epi8"}
      [] op = "_mm256_store_masked_u32" ->
            {"_mm256_storeu_si256", "_mm256_and_si256", "_mm256_set1_epi32"}
      [] op = "_mm256_masked_i32gather" ->
            {"_mm256_i32gather_epi32", "_mm256_and_si256", "_mm256_set1_epi32"}
      [] op = "_mm_load" -> {"_mm_loadu_si128"}
      [] op = "_mm_store" -> {"_mm_storeu_si128"}
      [] op = "_mm_store_masked_u8" ->
            {"_mm_storeu_si128", "_mm_and_si128", "_mm_set1_epi8"}
      [] op = "_mm_store_masked_u32" ->
            {"_mm_storeu_si128", "_mm_and_si128", "_mm_set1_epi32"}

\* A wrapper is called only in a program that built, on a processor that has
\* the feature the wrapper declares (the caller's feature gate).
Callable(op) ==
    /\ ncalls < MaxCalls
    /\ rejected = NoReject
    /\ target_feature(op) \in cpu

\* How a call ends: `x - 1` panics on overflow in a build with overflow
\* checks and wraps in one without; an intrinsic the processor does not
\* have is an illegal instruction.
Outcome(op, overflow) ==
    IF overflow /\ overflow_checks THEN "panic"
    ELSE IF \E ins \in Intrinsics(op) : RequiredFeature(ins) \notin cpu THEN "sigill"
    ELSE "ok"

Returns(rec) ==
    /\ last' = rec
    /\ ncalls' = ncalls + 1
    /\ UNCHANGED <<overflow_checks, cpu, slice, START_BOUND, rejected>>

(***************************************************************************)
(* The 256-bit wrappers.                                                   *)
(***************************************************************************)
\* faulty variant: the length check made for the 128-bit width
_mm256_load_checks_sse ==
    /\ CheckLengthsSimd(size_of(slice.T), slice.SLICE_BOUND, START_BOUND, SSE_VECTOR_SIZE)
    /\ CheckPow2Size(size_of(slice.T), SSE_VECTOR_SIZE)
\* the checks of _mm256_load
_mm256_load_checks ==
    /\ CheckLengthsSimd(size_of(slice.T), slice.SLICE_BOUND, START_BOUND, AVX_VECTOR_SIZE)
    /\ CheckPow2Size(size_of(slice.T), AVX_VECTOR_SIZE)
\* faulty variant: the offset is dropped
_mm256_load_ptr_base(start) == 0
\* data.get_slice().as_ptr().add(start.get()), as a byte address
_mm256_load_ptr(start) == start * size_of(slice.T)

_mm256_load(start, ub) ==
    /\ Callable("_mm256_load")
    /\ AsBytes(slice.T)
    /\ _mm256_load_checks
    /\ start \in 0..(START_BOUND - 1)
    /\ LET addr == _mm256_load_ptr(start)
           out == Outcome("_mm256_load", FALSE)
       IN  /\ ub \in IF (addr..(addr + AVX_VECTOR_SIZE - 1)) \subseteq 0..(Len(mem) - 1)
                       THEN {"zeros"} ELSE UBOutcomes
           /\ mem' = mem
           /\ Returns([NoCall EXCEPT
                  !.op = "_mm256_load", !.start = start,
                  !.outcome = IF ub = "fault" THEN "fault" ELSE out,
                  !.touched = IF out = "ok" THEN addr..(addr + AVX_VECTOR_SIZE - 1) ELSE {},
                  !.ret = IF out = "ok" /\ ub # "fault"
                          THEN _mm256_loadu_si256(mem, addr, Junk(ub)) ELSE <<>>])

\* the checks of _mm256_store
_mm256_store_checks ==
    /\ CheckLengthsSimd(size_of(slice.T), slice.SLICE_BOUND, START_BOUND, AVX_VECTOR_SIZE)
    /\ CheckPow2Size(size_of(slice.T), AVX_VECTOR_SIZE)
\* faulty variant: the offset counts vectors, not elements (add after the cast)
_mm256_store_ptr_vectors(start) == start * AVX_VECTOR_SIZE
\* data.get_slice_mut().as_mut_ptr().add(start.get()), as a byte address
_mm256_store_ptr(start) == start * size_of(slice.T)

_mm256_store(start, value) ==
    /\ Callable("_mm256_store")
    /\ FromBytes(slice.T)
    /\ _mm256_store_checks
    /\ start \in 0..(START_BOUND - 1)
    /\ LET addr == _mm256_store_ptr(start)
           out == Outcome("_mm256_store", FALSE)
       IN  /\ mem' = IF out = "ok" THEN _mm256_storeu_si256(mem, addr, value) ELSE mem
           /\ Returns([NoCall EXCEPT
                  !.op = "_mm256_store", !.start = start,
                  !.value = value, !.outcome = out,
                  !.touched = IF out = "ok" THEN addr..(addr + AVX_VECTOR_SIZE - 1) ELSE {},
                  !.written = IF out = "ok" THEN value ELSE <<>>])

\* the checks of _mm256_store_masked_u8
_mm256_store_masked_u8_checks ==
    /\ CheckLengthsSimd(size_of("u8"), slice.SLICE_BOUND, START_BOUND, AVX_VECTOR_SIZE)
    /\ CheckPow2(slice.VALUE_BOUND)
\* data.get_slice_mut().as_mut_ptr().add(start.get()), as a byte address
_mm256_store_masked_u8_ptr(start) == start * size_of(slice.T)
\* _mm256_and(_set1_epi8(VALUE_BOUND as i8 - 1), value), given the mask
_mm256_store_masked_u8_value(mask, value) ==
    _mm256_and_si256(_mm256_set1_epi8(mask), value)

_mm256_store_masked_u8(start, value) ==
    /\ Callable("_mm256_store_masked_u8")
    /\ slice.T = "BoundedU8"
    /\ _mm256_store_masked_u8_checks
    /\ start \in 0..(START_BOUND - 1)
    /\ LET addr == _mm256_store_masked_u8_ptr(start)
           bound == as_i8(slice.VALUE_BOUND)
           mask == WrappingSub1I8(bound)
           v == _mm256_store_masked_u8_value(mask, value)
           out == Outcome("_mm256_store_masked_u8", SubOverflowsI8(bound))
       IN  /\ mem' = IF out = "ok" THEN _mm256_storeu_si256(mem, addr, v) ELSE mem
           /\ Returns([NoCall EXCEPT
                  !.op = "_mm256_store_masked_u8", !.start = start,
                  !.value = value, !.outcome = out,
                  !.mask = mask, !.mask_overflow = SubOverflowsI8(bound),
                  !.touched = IF out = "ok" THEN addr..(addr + AVX_VECTOR_SIZE - 1) ELSE {},
                  !.written = IF out = "ok" THEN v ELSE <<>>])

\* the checks of _mm256_store_masked_u32
_mm256_store_masked_u32_checks ==
    /\ CheckLengthsSimd(size_of("u32"), slice.SLICE_BOUND, START_BOUND, AVX_VECTOR_SIZE)
    /\ CheckPow2(slice.VALUE_BOUND)
\* data.get_slice_mut().as_mut_ptr().add(start.get()), as a byte address
_mm256_store_masked_u32_ptr(start) == start * size_of(slice.T)
\* _mm256_and(_set1_epi32(VALUE_BOUND as i32 - 1), value), given the mask
_mm256_store_masked_u32_value(mask, value) ==
    _mm256_and_si256(_mm256_set1_epi32(mask), value)

_mm256_store_masked_u32(start, value) ==
    /\ Callable("_mm256_store_masked_u32")
    /\ slice.T = "BoundedU32"
    /\ _mm256_store_masked_u32_checks
    /\ start \in 0..(START_BOUND - 1)
    /\ LET addr == _mm256_store_masked_u32_ptr(start)
           bound == as_i32(slice.VALUE_BOUND)
           mask == WrappingSub1I32(bound)
           v == _mm256_store_masked_u32_value(mask, value)
           out == Outcome("_mm256_store_masked_u32", SubOverflowsI32(bound))
       IN  /\ mem' = IF out = "ok" THEN _mm256_storeu_si256(mem, addr, v) ELSE mem
           /\ Returns([NoCall EXCEPT
                  !.op = "_mm256_store_masked_u32", !.start = start,
                  !.value = value, !.outcome = out,
                  !.mask = mask, !.mask_overflow = SubOverflowsI32(bound),
                  !.touched = IF out = "ok" THEN addr..(addr + AVX_VECTOR_SIZE - 1) ELSE {},
                  !.written = IF out = "ok" THEN v ELSE <<>>])

\* the checks of _mm256_masked_i32gather
_mm256_masked_i32gather_checks(SCALE) ==
    /\ CheckPow2(slice.SLICE_BOUND)
    /\ CheckSameSize(slice.T, SCALE)
\* _mm256_and_si256(offsets, _mm256_set1_epi32(ARRAY_BOUND as i32 - 1)), given the mask
_mm256_masked_i32gather_vindex(mask, offsets) ==
    _mm256_and_si256(offsets, _mm256_set1_epi32(mask))

\* The hardware gather: lane l reads the 4 bytes at base + index * SCALE,
\* the index sign-extended to 64 bits.  Byte j of that read is at this
\* address; Below stands for every address before the base.
Below == <<-1, 0>>
GatherAddr(index, SCALE, j) ==
    IF index >= 0 THEN UsizeAdd(UsizeMul(Usize(index), SCALE), j)
    ELSE IF index >= -3 /\ index * SCALE + j >= 0 THEN Usize(index * SCALE + j)
    ELSE Below
InStorage(a) == a[1] >= 0 /\ UsizeLt(a, StorageSize(slice))
StorageByte(a, junk) ==
    IF ~InStorage(a) THEN junk
    ELSE IF UsizeLt(a, Usize(Len(mem))) THEN mem[UsizeToInt(a) + 1]
    ELSE InitByte(slice, a)
_mm256_i32gather_epi32(SCALE, vindex, junk) ==
    [j \in 1..AVX_VECTOR_SIZE |->
        StorageByte(GatherAddr(I32Lane(vindex, ((j - 1) \div 4) + 1), SCALE, (j - 1) % 4),
                    junk)]

_mm256_masked_i32gather(SCALE, offsets, ub) ==
    /\ Callable("_mm256_masked_i32gather")
    /\ AsBytes(slice.T)
    /\ _mm256_masked_i32gather_checks(SCALE)
    /\ LET bound == as_i32(slice.SLICE_BOUND)
           mask == WrappingSub1I32(bound)
           vindex == _mm256_masked_i32gather_vindex(mask, offsets)
           index == [l \in 1..8 |-> I32Lane(vindex, l)]
           reads == {GatherAddr(index[l], SCALE, j) : l \in 1..8, j \in 0..3}
           out == Outcome("_mm256_masked_i32gather", SubOverflowsI32(bound))
       IN  /\ ub \in IF out # "ok" \/ \A a \in reads : InStorage(a)
                       THEN {"zeros"} ELSE UBOutcomes
           /\ mem' = mem
           /\ Returns([NoCall EXCEPT
                  !.op = "_mm256_masked_i32gather",
                  !.value = offsets,
                  !.outcome = IF out = "ok" /\ ub = "fault" THEN "fault" ELSE out,
                  !.mask = mask, !.mask_overflow = SubOverflowsI32(bound),
                  !.index = IF out = "ok" THEN index ELSE <<>>,
                  !.touched = IF out = "ok" THEN reads ELSE {},
                  !.ret = IF out = "ok" /\ ub # "fault"
                          THEN _mm256_i32gather_epi32(SCALE, vindex, Junk(ub))
                          ELSE <<>>])

(***************************************************************************)
(* The 128-bit wrappers.                                                   *)
(***************************************************************************)
\* the checks of _mm_load
_mm_load_checks ==
    /\ CheckLengthsSimd(size_of(slice.T), slice.SLICE_BOUND, START_BOUND, SSE_VECTOR_SIZE)
    /\ CheckPow2Size(size_of(slice.T), SSE_VECTOR_SIZE)
\* data.get_slice().as_ptr().add(start.get()), as a byte address
_mm_load_ptr(start) == start * size_of(slice.T)

_mm_load(start, ub) ==
    /\ Callable("_mm_load")
    /\ AsBytes(slice.T)
    /\ _mm_load_checks
    /\ start \in 0..(START_BOUND - 1)
    /\ LET addr == _mm_load_ptr(start)
           out == Outcome("_mm_load", FALSE)
       IN  /\ ub \in IF (addr..(addr + SSE_VECTOR_SIZE - 1)) \subseteq 0..(Len(mem) - 1)
                       THEN {"zeros"} ELSE UBOutcomes
           /\ mem' = mem
           /\ Returns([NoCall EXCEPT
                  !.op = "_mm_load", !.start = start,
                  !.outcome = IF ub = "fault" THEN "fault" ELSE out,
                  !.touched = IF out = "ok" THEN addr..(addr + SSE_VECTOR_SIZE - 1) ELSE {},
                  !.ret = IF out = "ok" /\ ub # "fault"
                          THEN _mm_loadu_si128(mem, addr, Junk(ub)) ELSE <<>>])

\* the checks of _mm_store
_mm_store_checks ==
    /\ CheckLengthsSimd(size_of(slice.T), slice.SLICE_BOUND, START_BOUND, SSE_VECTOR_SIZE)
    /\ CheckPow2Size(size_of(slice.T), SSE_VECTOR_SIZE)
\* faulty variant: the offset counts bytes, not elements
_mm_store_ptr_bytes(start) == start
\* data.get_slice_mut().as_mut_ptr().add(start.get()), as a byte address
_mm_store_ptr(start) == start * size_of(slice.T)

_mm_store(start, value) ==
    /\ Callable("_mm_store")
    /\ FromBytes(slice.T)
    /\ _mm_store_checks
    /\ start \in 0..(START_BOUND - 1)
    /\ LET addr == _mm_store_ptr(start)
           out == Outcome("_mm_store", FALSE)
       IN  /\ mem' = IF out = "ok" THEN _mm_storeu_si128(mem, addr, value) ELSE mem
           /\ Returns([NoCall EXCEPT
                  !.op = "_mm_store", !.start = start,
                  !.value = value, !.outcome = out,
                  !.touched = IF out = "ok" THEN addr..(addr + SSE_VECTOR_SIZE - 1) ELSE {},
                  !.written = IF out = "ok" THEN value ELSE <<>>])

\* the checks of _mm_store_masked_u8
_mm_store_masked_u8_checks ==
    /\ CheckLengthsSimd(size_of("u8"), slice.SLICE_BOUND, START_BOUND, SSE_VECTOR_SIZE)
    /\ CheckPow2(slice.VALUE_BOUND)
\* data.get_slice_mut().as_mut_ptr().add(start.get()), as a byte address
_mm_store_masked_u8_ptr(start) == start * size_of(slice.T)
\* faulty variant: the vector is stored unmasked
_mm_store_masked_u8_value_unmasked(mask, value) == value
\* _mm_and(_set1_epi8(VALUE_BOUND as i8 - 1), value), given the mask
_mm_store_masked_u8_value(mask, value) ==
    _mm_and_si128(_mm_set1_epi8(mask), value)

_mm_store_masked_u8(start, value) ==
    /\ Callable("_mm_store_masked_u8")
    /\ slice.T = "BoundedU8"
    /\ _mm_store_masked_u8_checks
    /\ start \in 0..(START_BOUND - 1)
    /\ LET addr == _mm_store_masked_u8_ptr(start)
           bound == as_i8(slice.VALUE_BOUND)
           mask == WrappingSub1I8(bound)
           v == _mm_store_masked_u8_value(mask, value)
           out == Outcome("_mm_store_masked_u8", SubOverflowsI8(bound))
       IN  /\ mem' = IF out = "ok" THEN _mm_storeu_si128(mem, addr, v) ELSE mem
           /\ Returns([NoCall EXCEPT
                  !.op = "_mm_store_masked_u8", !.start = start,
                  !.value = value, !.outcome = out,
                  !.mask = mask, !.mask_overflow = SubOverflowsI8(bound),
                  !.touched = IF out = "ok" THEN addr..(addr + SSE_VECTOR_SIZE - 1) ELSE {},
                  !.written = IF out = "ok" THEN v ELSE <<>>])

\* the checks of _mm_store_masked_u32
_mm_store_masked_u32_checks ==
    /\ CheckLengthsSimd(size_of("u32"), slice.SLICE_BOUND, START_BOUND, SSE_VECTOR_SIZE)
    /\ CheckPow2(slice.VALUE_BOUND)
\* data.get_slice_mut().as_mut_ptr().add(start.get()), as a byte address
_mm_store_masked_u32_ptr(start) == start * size_of(slice.T)
\* _mm_and(_set1_epi32(VALUE_BOUND as i32 - 1), value), given the mask
_mm_store_masked_u32_value(mask, value) ==
    _mm_and_si128(_mm_set1_epi32(mask), value)

_mm_store_masked_u32(start, value) ==
    /\ Callable("_mm_store_masked_u32")
    /\ slice.T = "BoundedU32"
    /\ _mm_store_masked_u32_checks
    /\ start \in 0..(START_BOUND - 1)
    /\ LET addr == _mm_store_masked_u32_ptr(start)
           bound == as_i32(slice.VALUE_BOUND)
           mask == WrappingSub1I32(bound)
           v == _mm_store_masked_u32_value(mask, value)
           out == Outcome("_mm_store_masked_u32", SubOverflowsI32(bound))
       IN  /\ mem' = IF out = "ok" THEN _mm_storeu_si128(mem, addr, v) ELSE mem
           /\ Returns([NoCall EXCEPT
                  !.op = "_mm_store_masked_u32", !.start = start,
                  !.value = value, !.outcome = out,
                  !.mask = mask, !.mask_overflow = SubOverflowsI32(bound),
                  !.touched = IF out = "ok" THEN addr..(addr + SSE_VECTOR_SIZE - 1) ELSE {},
                  !.written = IF out = "ok" THEN v ELSE <<>>])

(***************************************************************************)
(* The build: an instantiation whose checks fail does not compile, and a   *)
(* program that does not compile makes no call.                            *)
(***************************************************************************)
LoadStoreOps ==
    {"_mm256_load", "_mm256_store", "_mm256_store_masked_u8", "_mm256_store_masked_u32",
     "_mm_load", "_mm_store", "_mm_store_masked_u8", "_mm_store_masked_u32"}
Scales == {1, 2, 4, 8}   \* the scales the gather instruction has

\* the slice has the type the wrapper's signature asks for
Typechecks(op) ==
    CASE op \in {"_mm256_load", "_mm_load", "_mm256_masked_i32gather"} -> AsBytes(slice.T)
      [] op \in {"_mm256_store", "_mm_store"} -> FromBytes(slice.T)
      [] op \in {"_mm256_store_masked_u8", "_mm_store_masked_u8"} -> slice.T = "BoundedU8"
      [] op \in {"_mm256_store_masked_u32", "_mm_store_masked_u32"} -> slice.T = "BoundedU32"

Checks(op, SCALE) ==
    CASE op = "_mm256_load" -> _mm256_load_checks
      [] op = "_mm256_store" -> _mm256_store_checks
      [] op = "_mm256_store_masked_u8" -> _mm256_store_masked_u8_checks
      [] op = "_mm256_store_masked_u32" -> _mm256_store_masked_u32_checks
      [] op = "_mm256_masked_i32gather" -> _mm256_masked_i32gather_checks(SCALE)
      [] op = "_mm_load" -> _mm_load_checks
      [] op = "_mm_store" -> _mm_store_checks
      [] op = "_mm_store_masked_u8" -> _mm_store_masked_u8_checks
      [] op = "_mm_store_masked_u32" -> _mm_store_masked_u32_checks

Reject(op, SCALE) ==
    /\ ncalls = 0
    /\ rejected = NoReject
    /\ Typechecks(op)
    /\ ~Checks(op, SCALE)
    /\ rejected' = [op |-> op, SCALE |-> SCALE]
    /\ UNCHANGED <<overflow_checks, cpu, slice, START_BOUND, mem, last, ncalls>>

Next ==
    \/ \E k \in 0..(MaxStartBound - 1), ub \in UBOutcomes : _mm256_load(k, ub)
    \/ \E k \in 0..(MaxStartBound - 1), X \in Vectors(AVX_VECTOR_SIZE) : _mm256_store(k, X)
    \/ \E k \in 0..(MaxStartBound - 1), X \in Vectors(AVX_VECTOR_SIZE) :
            _mm256_store_masked_u8(k, X)
    \/ \E k \in 0..(MaxStartBound - 1), X \in Vectors(AVX_VECTOR_SIZE) :
            _mm256_store_masked_u32(k, X)
    \/ \E SCALE \in Scales, offsets \in OffsetVectors, ub \in UBOutcomes :
            _mm256_masked_i32gather(SCALE, offsets, ub)
    \/ \E k \in 0..(MaxStartBound - 1), ub \in UBOutcomes : _mm_load(k, ub)
    \/ \E k \in 0..(MaxStartBound - 1), X \in Vectors(SSE_VECTOR_SIZE) : _mm_store(k, X)
    \/ \E k \in 0..(MaxStartBound - 1), X \in Vectors(SSE_VECTOR_SIZE) :
            _mm_store_masked_u8(k, X)
    \/ \E k \in 0..(MaxStartBound - 1), X \in Vectors(SSE_VECTOR_SIZE) :
            _mm_store_masked_u32(k, X)
    \/ \E op \in LoadStoreOps : Reject(op, 0)
    \/ \E SCALE \in Scales : Reject("_mm256_masked_i32gather", SCALE)

Spec == Init /\ [][Next]_vars

\* the gather alone, on the slices it accepts and rejects
NextGather ==
    \/ \E SCALE \in Scales, offsets \in OffsetVectors, ub \in UBOutcomes :
            _mm256_masked_i32gather(SCALE, offsets, ub)
    \/ \E SCALE \in Scales : Reject("_mm256_masked_i32gather", SCALE)

SpecGather == InitGather /\ [][NextGather]_vars

(***************************************************************************)
(* The properties.  What they need beside the model: the element size,     *)
(* the vector width of each wrapper, and lanes read as numbers.            *)
(***************************************************************************)
ElemSize == size_of(slice.T)
SliceLen == UsizeToInt(slice.SLICE_BOUND)
Width(op) ==
    IF op \in {"_mm_load", "_mm_store", "_mm_store_masked_u8", "_mm_store_masked_u32"}
    THEN 16 ELSE 32
MaskedOps ==
    {"_mm_store_masked_u8", "_mm_store_masked_u32",
     "_mm256_store_masked_u8", "_mm256_store_masked_u32"}
StoreOps == MaskedOps \cup {"_mm_store", "_mm256_store"}

\* lane l (1-based) of `bytes`, lanes of w bytes (1 or 4), as a usize
LaneValue(bytes, l, w) ==
    IF w = 1 THEN <<0, bytes[l]>>
    ELSE <<bytes[4 * l], bytes[4 * l - 3] + 256 * bytes[4 * l - 2] + 65536 * bytes[4 * l - 1]>>
\* v mod B for a power of two B
UsizeModPow2(v, B) == IF B[1] = 0 THEN <<0, v[2] % B[2]>> ELSE <<v[1] % B[1], v[2]>>
\* the bytes of the storage a call at offset k with vector width w covers
Covered(k, w) == [j \in 1..w |-> mem[k * ElemSize + j]]

\* C1: every byte a load, store or masked store touches lies within the
\* slice's storage [0, S*E): the call at offset k < START_BOUND touches
\* exactly [k*ElemSize, k*ElemSize + V), and that range is inside the storage.
C1_AccessInBounds ==
    last.op \in LoadStoreOps =>
        /\ last.start < START_BOUND
        /\ last.outcome = "ok" =>
              last.touched = (last.start * ElemSize)..(last.start * ElemSize + Width(last.op) - 1)
        /\ \A b \in last.touched : 0 <= b /\ b < SliceLen * ElemSize

\* C1 witness: a 256-bit store at the largest offset of the largest
\* offset bound the slice admits; its last byte is the slice's last byte.
C1_Witness ==
    /\ last.op = "_mm256_store"
    /\ last.outcome = "ok"
    /\ last.start = START_BOUND - 1
    /\ last.start > 0
    /\ START_BOUND * ElemSize + 32 = SliceLen * ElemSize
    /\ (START_BOUND - 1) * ElemSize + 31 \in last.touched

\* C2: a wrapper runs only if O*ElemSize + V <= SliceLen*ElemSize, and is rejected by the build
\* only if not; a program with a rejected instantiation makes no call, so
\* nothing stands in for the rejection at run time.  With ElemSize = 4, V = 16,
\* SliceLen = 8 the 128-bit load and store run for O <= 4 and are rejected at 5.
C2_LengthsCheckedAtBuild ==
    /\ last.op \in LoadStoreOps => START_BOUND * ElemSize + Width(last.op) <= SliceLen * ElemSize
    /\ rejected.op \in LoadStoreOps => START_BOUND * ElemSize + Width(rejected.op) > SliceLen * ElemSize
    /\ rejected # NoReject => last = NoCall /\ ncalls = 0 /\ mem = InitMem(slice)
    /\ (slice = PlainSlice("u32", Usize(8)) /\ last.op \in {"_mm_load", "_mm_store"})
          => START_BOUND <= 4
    /\ (slice = PlainSlice("u32", Usize(8)) /\ rejected.op \in {"_mm_load", "_mm_store"})
          => START_BOUND >= 5

\* C2 witness: the build rejects _mm_load of 4-byte elements with
\* SLICE_BOUND 8 and START_BOUND 5.
C2_Witness ==
    /\ slice = PlainSlice("u32", Usize(8))
    /\ START_BOUND = 5
    /\ rejected.op = "_mm_load"

\* C3: an unmasked store leaves its vector in the bytes it covers and a
\* load returns the bytes it covers as they are, so a load that follows
\* an unmasked store of the same width at the same offset returns the
\* vector that was stored.
C3_RoundTrip ==
    [][/\ last'.op \in {"_mm_store", "_mm256_store"} /\ ncalls' = ncalls + 1
            => [j \in 1..Width(last'.op) |-> mem'[last'.start * ElemSize + j]] = last'.value
       /\ last'.op \in {"_mm_load", "_mm256_load"} /\ ncalls' = ncalls + 1
            => last'.ret = Covered(last'.start, Width(last'.op))
       /\ \A p \in {<<"_mm_store", "_mm_load">>, <<"_mm256_store", "_mm256_load">>} :
            (last.op = p[1] /\ last'.op = p[2] /\ ncalls' = ncalls + 1
                /\ last'.start = last.start)
            => (last'.outcome = "ok" /\ last'.ret = last.value)]_vars

\* C3 witness: a 256-bit load at a nonzero offset returned a stored vector
\* (the initial content holds no such run of bytes).
C3_Witness ==
    /\ last.op = "_mm256_load"
    /\ last.start = 1
    /\ last.ret = [j \in 1..32 |-> 200]

\* C4: after a masked store with bound B, every lane read back from the
\* slice is the caller's lane value mod B.
C4_MaskedStoreWraps ==
    last.op \in MaskedOps =>
        \A l \in 1..(Width(last.op) \div ElemSize) :
            LaneValue(Covered(last.start, Width(last.op)), l, ElemSize)
                = UsizeModPow2(LaneValue(last.value, l, ElemSize), slice.VALUE_BOUND)

\* C5: every element of a slice of bounded values is below VALUE_BOUND,
\* whatever masked stores were made.
C5_RangeInvariant ==
    slice.VALUE_BOUND # NoBound =>
        \A i \in 1..SliceLen : UsizeLt(LaneValue(mem, i, ElemSize), slice.VALUE_BOUND)

\* C5 witness: a masked byte store with bound 16 completed, of a vector
\* whose lanes (200) are out of range.
C5_Witness ==
    /\ last.op = "_mm_store_masked_u8"
    /\ last.outcome = "ok"
    /\ slice.VALUE_BOUND = Usize(16)
    /\ last.value[1] = 200
    /\ mem[last.start + 1] = 8

\* C6: every byte a gather reads lies within the slice's storage [0, B*ElemSize).
C6_GatherInBounds ==
    last.op = "_mm256_masked_i32gather" =>
        \A a \in last.touched :
            a # Below /\ UsizeLt(a, UsizeMul(slice.SLICE_BOUND, ElemSize))

\* i mod B for a signed 32-bit i and a power of two B, as the index idx
WrapsTo(idx, i, B) ==
    IF UsizeFits(B) THEN idx = i % UsizeToInt(B)
    ELSE IF B = UsizePow2(31) THEN idx = (IF i >= 0 THEN i ELSE (i + I32_MAX) + 1)
    ELSE i >= 0 /\ idx = i

\* C7: a gather completes for every offset vector, and lane l reads at
\* element index (offset lane l) mod B.
C7_GatherWraps ==
    last.op = "_mm256_masked_i32gather" =>
        /\ last.outcome # "panic"
        /\ DOMAIN last.index = 1..8
        /\ \A l \in 1..8 : WrapsTo(last.index[l], I32Lane(last.value, l), slice.SLICE_BOUND)

\* bound - 1, and its low bits
UsizePred(u) == IF u[2] > 0 THEN <<u[1], u[2] - 1>> ELSE <<u[1] - 1, Digit - 1>>
MaskPattern(op, mask) ==
    IF op \in {"_mm_store_masked_u8", "_mm256_store_masked_u8"}
    THEN <<0, LEByte(mask, 0)>>
    ELSE <<LEByte(mask, 3), mask % Digit>>
BoundPattern(op, bound) ==
    IF op \in {"_mm_store_masked_u8", "_mm256_store_masked_u8"}
    THEN <<0, UsizePred(bound)[2] % 256>>
    ELSE <<UsizePred(bound)[1] % 256, UsizePred(bound)[2]>>

\* C8: every wrapper call completes; the mask is computed without
\* overflow and is the bit pattern of bound - 1 cut to the lane width.
C8_NoRuntimeFailure ==
    last.op # "none" =>
        /\ last.outcome = "ok"
        /\ ~last.mask_overflow
        /\ last.op \in MaskedOps =>
              MaskPattern(last.op, last.mask) = BoundPattern(last.op, slice.VALUE_BOUND)

C10_FeatureCovers ==
    last.op # "none" =>
        /\ target_feature(last.op) \in cpu
        /\ \A ins \in Intrinsics(last.op) : RequiredFeature(ins) \in cpu

====
